---- MODULE Spec2Model ----
(***************************************************************************)
(* Credential / session / token management of vendoor_express.            *)
(*                                                                         *)
(* Three designs live side by side in the repository:                      *)
(*   - the session design  (app/api/auth.py, app/dependencies.py,          *)
(*     app/crud/session.py): opaque session ids, revocation by deletion;   *)
(*   - the token design    (app/core/security.py, app/crud/token.py):      *)
(*     signed JWTs with a store row per jti, revocation by is_active;      *)
(*   - the legacy design   (routers/auth.py, dependencies.py, internal/):  *)
(*     signed JWTs with a store row per jti, revocation by deletion.       *)
(* Each design has its own specification over its own tables; the user     *)
(* table and the clock are shared.                                         *)
(***************************************************************************)
EXTENDS Integers, FiniteSets, Sequences, TLC

\* ---------------------------------------------------------------- bounds
\* clock ticks per second: datetimes carry sub-second precision, the exp
\* claim of a JWT is a whole number of seconds
TicksPerSecond == 2
\* session ids (uuid4 values) the session design may draw
MaxSessions == 3
\* scaled settings.session_expire_days, in seconds of the model clock
SessionTtlSeconds == 1
\* jti values (uuid4) the token design may draw
MaxTokens == 3
\* scaled token lifetimes (expires_delta), in seconds of the model clock
TokenTtlSeconds == 1
\* password reset links forgot_password may mail out
MaxResetLinks == 1
\* scaled settings.reset_token_expire_minutes, in seconds of the model clock
ResetTtlSeconds == 1
\* scaled expires_in_minutes of the OTP cookie, in seconds of the model clock
OtpTtlSeconds == 1
\* the clock runs from 0 until one tick after a token issued at 0 expires
MaxTime == TokenTtlSeconds * TicksPerSecond + 1

\* ---------------------------------------------------------------- values
Users == {"u1", "u2"}
Passwords == {"pw1", "pw2"}
\* ids (uuid4 defaults of User.id) the user table may draw
UserIds == Users \cup {"u3"}
GhostEmail == "ghost@example.com"
EmailOf(u) == IF u = "u1" THEN "u1@example.com" ELSE "u2@example.com"
Emails == {EmailOf(u) : u \in Users} \cup {GhostEmail}

\* values of the session_id cookie: absent, not a UUID, or a UUID
NoCookie == 0
MalformedCookie == -1
SessionIds == 1..MaxSessions
Cookies == SessionIds \cup {NoCookie, MalformedCookie}

NoUser == "none"
NoSession == 0

\* TokenType (db/enums.py)
ACCESS == "access"
REFRESH == "refresh"
RESET == "reset"
TokenTypes == {ACCESS, REFRESH, RESET}

\* a JWT as the client holds it: the signed payload and the state of its
\* signature; jti = NoJti when the payload carries no jti claim
NoJti == 0
Jtis == 1..MaxTokens
NoPayload == [sub |-> NoUser, jti |-> NoJti, exp |-> 0]
MalformedToken == [payload |-> NoPayload, sig |-> "malformed"]
Signed(payload) == [payload |-> payload, sig |-> "valid"]
Forged(payload) == [payload |-> payload, sig |-> "forged"]
\* codes generate_otp may draw
Otps == {"A1B2C3", "D4E5F6"}
\* the cookie of a request that carries none
NoToken == [payload |-> NoPayload, sig |-> "absent"]
\* the jti a handler can read off a token: none unless the signature verifies
JtiOf(token) == IF token.sig = "valid" THEN token.payload.jti ELSE NoJti

\* op: the handler; status: HTTP status (200 also for a returned value);
\* user: the principal the handler resolved; cred: the session id or jti
\* presented; new: the session id or jti issued; rows: the rows the
\* handler's delete matched; repeat: the request before this one was a
\* logout that succeeded with the same cred (rows and repeat are
\* observations, not part of the body)
NoResponse == [op |-> "idle", status |-> 0, detail |-> "", user |-> NoUser, cred |-> 0,
               new |-> 0, rows |-> 0, repeat |-> FALSE]

\* the two requests of the race before they start: lpc and apc are the
\* positions of the login and of the logout_all, the other fields their locals
RaceIdle == [lpc |-> "idle", luser |-> NoUser, lcookie |-> NoCookie, lsid |-> NoSession,
             lexpiry |-> 0, lstatus |-> 0, apc |-> "idle", auser |-> NoUser, astatus |-> 0]

VARIABLES
    now,        \* datetime.datetime.now(datetime.UTC), in ticks
    users,      \* table "user": id -> row
    sessions,   \* table "sessions": id -> row (only the rows present)
    nextSid,    \* the next uuid4 the session design draws
    sessionOwner, \* history: session id -> user it was issued to
    tokens,     \* table "tokens" of the token design: jti -> row
    jwts,       \* payloads of the JWTs signed with settings.secret_key so far
    nextJti,    \* the next uuid4 the token design draws
    resetLinks, \* number of reset links mailed by forgot_password
    ltokens,    \* table "tokens" of the legacy design: jti -> row
    ljwts,      \* payloads of the JWTs the legacy design signed so far
    nextLJti,   \* the next uuid4 the legacy design draws
    response,   \* the response of the request handled by the last step
    race        \* a login and a logout_all handled step by step by two workers

sessionVars == <<sessions, nextSid, sessionOwner>>
tokenVars == <<tokens, jwts, nextJti, resetLinks>>
legacyVars == <<ltokens, ljwts, nextLJti>>
vars == <<now, users, sessions, nextSid, sessionOwner, tokens, jwts, nextJti, resetLinks,
          ltokens, ljwts, nextLJti, response, race>>

\* ------------------------------------------------------- password vault
\* password_context.hash: salted one-way digest; verify recomputes it
hash_password(password) == "bcrypt(" \o password \o ")"
\* the sub claim of an OTP cookie: the hash of the code, not a UUID
OtpSalts == {hash_password(otp) : otp \in Otps}
verify_password(plain_password, hashed_password) ==
    hashed_password = hash_password(plain_password)

\* ------------------------------------------------------------ user crud
get_user(user_id) == IF user_id \in DOMAIN users THEN user_id ELSE NoUser
get_user_by_email(email) ==
    IF \E u \in DOMAIN users : users[u].email = email
    THEN CHOOSE u \in DOMAIN users : users[u].email = email
    ELSE NoUser
update_user(tbl, u, field, value) == [tbl EXCEPT ![u][field] = value]

\* --------------------------------------------------------- session crud
store_session(tbl, session_id, data, expires_at) ==
    [s \in DOMAIN tbl \cup {session_id} |->
        IF s = session_id THEN [user_id |-> data, expires_at |-> expires_at]
        ELSE tbl[s]]
get_session(tbl, session_id) ==
    IF session_id \in DOMAIN tbl THEN session_id ELSE NoSession
\* variant of delete_session_by_user_id that blanks the rows' user_id and
\* keeps the rows
delete_session_by_user_id_blank(tbl, data) ==
    [s \in DOMAIN tbl |->
        IF tbl[s].user_id = data THEN [tbl[s] EXCEPT !.user_id = NoUser] ELSE tbl[s]]
\* variants of the two deletes: one matches no row, one matches every row
delete_session_by_user_id_no_row(tbl, data) == tbl
delete_session_every_row(tbl, session_id) == [s \in {} |-> tbl[s]]
delete_session_by_user_id(tbl, data) ==
    [s \in {x \in DOMAIN tbl : tbl[x].user_id # data} |-> tbl[s]]
delete_session(tbl, session_id) ==
    [s \in DOMAIN tbl \ {session_id} |-> tbl[s]]

\* ------------------------------------------------- dependencies (session)
\* variant of get_current_user without the expires_at comparison
get_current_user_no_expiry(tbl, cookie) ==
    IF cookie = NoCookie THEN [status |-> 401, user |-> NoUser, tbl |-> tbl]
    ELSE IF cookie = MalformedCookie THEN [status |-> 500, user |-> NoUser, tbl |-> tbl]
    ELSE IF get_session(tbl, cookie) = NoSession
         THEN [status |-> 401, user |-> NoUser, tbl |-> tbl]
    ELSE IF get_user(tbl[cookie].user_id) = NoUser
         THEN [status |-> 404, user |-> NoUser, tbl |-> delete_session(tbl, cookie)]
    ELSE [status |-> 200, user |-> tbl[cookie].user_id, tbl |-> tbl]
\* get_current_user: the outcome and the session table it leaves behind
get_current_user(tbl, cookie) ==
    IF cookie = NoCookie THEN [status |-> 401, user |-> NoUser, tbl |-> tbl]
    ELSE IF cookie = MalformedCookie THEN [status |-> 500, user |-> NoUser, tbl |-> tbl]
    ELSE IF get_session(tbl, cookie) = NoSession
         THEN [status |-> 401, user |-> NoUser, tbl |-> tbl]
    ELSE IF tbl[cookie].expires_at < now
         THEN [status |-> 401, user |-> NoUser, tbl |-> delete_session(tbl, cookie)]
    ELSE IF get_user(tbl[cookie].user_id) = NoUser
         THEN [status |-> 404, user |-> NoUser, tbl |-> delete_session(tbl, cookie)]
    ELSE [status |-> 200, user |-> tbl[cookie].user_id, tbl |-> tbl]

\* variant of get_current_active_user that does not read is_active
get_current_active_user_any(tbl, cookie) == get_current_user(tbl, cookie)
get_current_active_user(tbl, cookie) ==
    LET r == get_current_user(tbl, cookie) IN
    IF r.status # 200 THEN r
    ELSE IF users[r.user].is_active THEN r
    ELSE [status |-> 403, user |-> NoUser, tbl |-> r.tbl]

\* variant of authenticate that does not verify the password
authenticate_any_password(email, password) ==
    LET user == get_user_by_email(email) IN
    IF user = NoUser
    THEN [status |-> 401, detail |-> "User does not exist", user |-> NoUser]
    ELSE [status |-> 200, detail |-> "", user |-> user]
\* authenticate: the user, or the 401 it raises
authenticate(email, password) ==
    LET user == get_user_by_email(email) IN
    IF user = NoUser
    THEN [status |-> 401, detail |-> "User does not exist", user |-> NoUser]
    ELSE IF ~verify_password(password, users[user].hashed_password)
    THEN [status |-> 401, detail |-> "Password is incorrect", user |-> NoUser]
    ELSE [status |-> 200, detail |-> "", user |-> user]

\* ------------------------------------------------------------- actions
Resp(op, status, detail, user, cred, new) ==
    [op |-> op, status |-> status, detail |-> detail, user |-> user, cred |-> cred,
     new |-> new, rows |-> 0, repeat |-> FALSE]

\* POST /api/auth/login (session design)
login(email, password, cookie) ==
    LET a == authenticate(email, password) IN
    IF a.status # 200
    THEN /\ response' = Resp("login", a.status, a.detail, NoUser, cookie, 0)
         /\ UNCHANGED <<now, users, sessionVars, tokenVars, legacyVars, race>>
    ELSE LET afterUser == delete_session_by_user_id(sessions, a.user) IN
         IF cookie = MalformedCookie
         THEN \* uuid.UUID(old_session_id) raises ValueError after the first delete
              /\ sessions' = afterUser
              /\ response' = Resp("login", 500, "", NoUser, cookie, 0)
              /\ UNCHANGED <<now, users, nextSid, sessionOwner, tokenVars, legacyVars, race>>
         ELSE LET afterCookie == IF cookie = NoCookie THEN afterUser
                                 ELSE delete_session(afterUser, cookie)
                                 expiry == now + SessionTtlSeconds * TicksPerSecond
              IN
              /\ nextSid <= MaxSessions
              /\ sessions' = store_session(afterCookie, nextSid, a.user, expiry)
              /\ nextSid' = nextSid + 1
              /\ sessionOwner' = [s \in DOMAIN sessionOwner \cup {nextSid} |->
                                    IF s = nextSid THEN a.user ELSE sessionOwner[s]]
              /\ users' = update_user(users, a.user, "is_first_login",
                            IF users[a.user].is_first_login = "null" THEN "true" ELSE "false")
              /\ response' = Resp("login", 200, "Successfully logged in", a.user, cookie, nextSid)
              /\ UNCHANGED <<now, tokenVars, legacyVars, race>>

\* variant of logout that answers 401 when the session row is not there
logout_strict(cookie) ==
    /\ IF cookie \notin DOMAIN sessions
       THEN response' = Resp("logout", 401, "Could not validate credentials", NoUser, cookie, 0)
       ELSE response' = [Resp("logout", 200, "Successfully logged out", NoUser, cookie, 0)
                           EXCEPT !.rows = 1]
    /\ sessions' = delete_session(sessions, cookie)
    /\ UNCHANGED <<now, users, nextSid, sessionOwner, tokenVars, legacyVars, race>>
\* POST /api/auth/logout (session design)
logout(cookie) ==
    /\ IF cookie = NoCookie
       THEN /\ response' = Resp("logout", 401, "Could not validate credentials", NoUser, cookie, 0)
            /\ UNCHANGED sessions
       ELSE IF cookie = MalformedCookie
       THEN \* uuid.UUID(session_id) raises ValueError
            /\ response' = Resp("logout", 500, "", NoUser, cookie, 0)
            /\ UNCHANGED sessions
       ELSE /\ sessions' = delete_session(sessions, cookie)
            /\ response' = [Resp("logout", 200, "Successfully logged out", NoUser, cookie, 0)
                              EXCEPT !.rows = IF cookie \in DOMAIN sessions THEN 1 ELSE 0,
                                     !.repeat = (response.op = "logout"
                                                 /\ response.status = 200
                                                 /\ response.cred = cookie)]
    /\ UNCHANGED <<now, users, nextSid, sessionOwner, tokenVars, legacyVars, race>>

\* POST /api/auth/logoutall (session design)
logout_all(cookie) ==
    LET r == get_current_active_user(sessions, cookie) IN
    /\ IF r.status # 200
       THEN /\ sessions' = r.tbl
            /\ response' = Resp("logout_all", r.status, "", NoUser, cookie, 0)
       ELSE /\ sessions' = delete_session_by_user_id(r.tbl, r.user)
            /\ response' = Resp("logout_all", 200, "Successfully logged out all devices", r.user, cookie, 0)
    /\ UNCHANGED <<now, users, nextSid, sessionOwner, tokenVars, legacyVars, race>>

\* GET /api/users/me: any route guarded by get_current_active_user
read_users_me(cookie) ==
    LET r == get_current_active_user(sessions, cookie) IN
    /\ sessions' = r.tbl
    /\ response' = Resp("me", r.status, "", r.user, cookie, 0)
    /\ UNCHANGED <<now, users, nextSid, sessionOwner, tokenVars, legacyVars, race>>

\* ------------------------------------------- login racing logout_all
\* The same two handlers run by two workers, one committed statement per
\* step. login: authenticate, delete_session_by_user_id, delete_session of
\* the cookie's session, create_session, update_user.
login_authenticate(email, password, cookie) ==
    LET a == authenticate(email, password) IN
    /\ race.lpc = "idle"
    /\ IF a.status # 200
       THEN /\ race' = [race EXCEPT !.lpc = "done", !.lstatus = a.status]
            /\ response' = Resp("login", a.status, a.detail, NoUser, cookie, 0)
       ELSE /\ race' = [race EXCEPT !.lpc = "authenticated", !.luser = a.user,
                                     !.lcookie = cookie]
            /\ UNCHANGED response
    /\ UNCHANGED <<now, users, sessionVars, tokenVars, legacyVars>>

login_delete_session_by_user_id ==
    /\ race.lpc = "authenticated"
    /\ sessions' = delete_session_by_user_id(sessions, race.luser)
    /\ race' = [race EXCEPT !.lpc = "deleted"]
    /\ UNCHANGED <<now, users, nextSid, sessionOwner, tokenVars, legacyVars, response>>

login_delete_session ==
    /\ race.lpc = "deleted"
    /\ IF race.lcookie = MalformedCookie
       THEN \* uuid.UUID(old_session_id) raises ValueError
            /\ race' = [race EXCEPT !.lpc = "done", !.lstatus = 500]
            /\ response' = Resp("login", 500, "", NoUser, race.lcookie, 0)
            /\ UNCHANGED sessions
       ELSE /\ sessions' = IF race.lcookie = NoCookie THEN sessions
                           ELSE delete_session(sessions, race.lcookie)
            /\ race' = [race EXCEPT !.lpc = "cookie_deleted"]
            /\ UNCHANGED response
    /\ UNCHANGED <<now, users, nextSid, sessionOwner, tokenVars, legacyVars>>

login_create_session ==
    LET expiry == now + SessionTtlSeconds * TicksPerSecond IN
    /\ race.lpc = "cookie_deleted"
    /\ nextSid <= MaxSessions
    /\ sessions' = store_session(sessions, nextSid, race.luser, expiry)
    /\ nextSid' = nextSid + 1
    /\ sessionOwner' = [s \in DOMAIN sessionOwner \cup {nextSid} |->
                          IF s = nextSid THEN race.luser ELSE sessionOwner[s]]
    /\ race' = [race EXCEPT !.lpc = "stored", !.lsid = nextSid, !.lexpiry = expiry]
    /\ UNCHANGED <<now, users, tokenVars, legacyVars, response>>

login_update_user ==
    /\ race.lpc = "stored"
    /\ users' = update_user(users, race.luser, "is_first_login",
                  IF users[race.luser].is_first_login = "null" THEN "true" ELSE "false")
    /\ race' = [race EXCEPT !.lpc = "done", !.lstatus = 200]
    /\ response' = Resp("login", 200, "Successfully logged in", race.luser,
                        race.lcookie, race.lsid)
    /\ UNCHANGED <<now, sessionVars, tokenVars, legacyVars>>

\* logout_all: the get_current_active_user dependency, then
\* delete_session_by_user_id
logout_all_get_current_active_user(cookie) ==
    LET r == get_current_active_user(sessions, cookie) IN
    /\ race.apc = "idle"
    /\ sessions' = r.tbl
    /\ IF r.status # 200
       THEN /\ race' = [race EXCEPT !.apc = "done", !.astatus = r.status]
            /\ response' = Resp("logout_all", r.status, "", NoUser, cookie, 0)
       ELSE /\ race' = [race EXCEPT !.apc = "resolved", !.auser = r.user]
            /\ UNCHANGED response
    /\ UNCHANGED <<now, users, nextSid, sessionOwner, tokenVars, legacyVars>>

logout_all_delete_session_by_user_id ==
    /\ race.apc = "resolved"
    /\ sessions' = delete_session_by_user_id(sessions, race.auser)
    /\ race' = [race EXCEPT !.apc = "done", !.astatus = 200]
    /\ response' = Resp("logout_all", 200, "Successfully logged out all devices",
                        race.auser, 0, 0)
    /\ UNCHANGED <<now, users, nextSid, sessionOwner, tokenVars, legacyVars>>

\* ====================================================== token design
\* ----------------------------------------------------------- token crud
store_token(tbl, user_id, token_jti, token_type, expires_at) ==
    [j \in DOMAIN tbl \cup {token_jti} |->
        IF j = token_jti
        THEN [user_id |-> user_id, token_type |-> token_type,
              expires_at |-> expires_at, is_active |-> TRUE]
        ELSE tbl[j]]
get_token(tbl, token_jti) ==
    IF token_jti \in DOMAIN tbl THEN token_jti ELSE NoJti
\* variant of invalidate_token that flips is_active instead of clearing it
invalidate_token_flip(tbl, token_type, token_jti) ==
    [j \in DOMAIN tbl |->
        IF j = token_jti /\ tbl[j].token_type = token_type
        THEN [tbl[j] EXCEPT !.is_active = ~tbl[j].is_active] ELSE tbl[j]]
invalidate_token(tbl, token_type, token_jti) ==
    [j \in DOMAIN tbl |->
        IF j = token_jti /\ tbl[j].token_type = token_type
        THEN [tbl[j] EXCEPT !.is_active = FALSE] ELSE tbl[j]]
invalidate_all_user_access_tokens(tbl, user, token_type) ==
    [j \in DOMAIN tbl |->
        IF tbl[j].user_id = user /\ tbl[j].is_active /\ tbl[j].token_type = token_type
        THEN [tbl[j] EXCEPT !.is_active = FALSE] ELSE tbl[j]]

\* ------------------------------------------------------------- signing
\* jwt.encode turns the exp datetime into whole seconds (here: the tick
\* that starts the second)
JwtExp(expire) == (expire \div TicksPerSecond) * TicksPerSecond
\* jwt.decode: "invalid" (DecodeError, InvalidSignatureError), "expired"
\* (ExpiredSignatureError) or "ok"; the signature is checked before exp
jwt_decode(token) ==
    IF token.sig # "valid" THEN "invalid"
    ELSE IF token.payload.exp <= now THEN "expired"
    ELSE "ok"

\* ------------------------------------------------------------ security
verify_token(token) ==
    IF jwt_decode(token) # "ok" THEN [ok |-> FALSE, user_id |-> NoUser, jti |-> NoJti]
    ELSE IF token.payload.jti = NoJti \/ token.payload.sub = NoUser
         THEN [ok |-> FALSE, user_id |-> NoUser, jti |-> NoJti]
    ELSE [ok |-> TRUE, user_id |-> token.payload.sub, jti |-> token.payload.jti]

\* create_token: the table after store_token, the payload signed, and
\* whether the ValueError of a REFRESH token without response was raised
\* (create_token_at: with the clock read at time at)
create_token_at(tbl, sub, jti, token_type, expires_delta, has_response, at) ==
    LET expire == at + expires_delta IN
    [tbl |-> store_token(tbl, sub, jti, token_type, expire),
     payload |-> [sub |-> sub, jti |-> jti, exp |-> JwtExp(expire)],
     raised |-> (token_type = REFRESH /\ ~has_response)]
create_token(tbl, sub, jti, token_type, expires_delta, has_response) ==
    create_token_at(tbl, sub, jti, token_type, expires_delta, has_response, now)

\* variant of validate_token that does not read is_active
validate_token_any_row(tbl, token, token_type) ==
    LET v == verify_token(token) IN
    IF ~v.ok THEN [user |-> NoUser, tbl |-> tbl]
    ELSE IF get_user(v.user_id) = NoUser THEN [user |-> NoUser, tbl |-> tbl]
    ELSE IF get_token(tbl, v.jti) = NoJti \/ tbl[v.jti].user_id # v.user_id
         THEN [user |-> NoUser, tbl |-> tbl]
    ELSE IF tbl[v.jti].expires_at < now
         THEN [user |-> NoUser, tbl |-> invalidate_token(tbl, token_type, v.jti)]
    ELSE [user |-> v.user_id, tbl |-> tbl]
\* validate_token: the user (NoUser for False) and the table it leaves.
\* The clock is read twice: by jwt.decode when the call starts (now) and by
\* the comparison with the row, after the queries (later >= now).
validate_token_at(tbl, token, token_type, later) ==
    LET v == verify_token(token) IN
    IF ~v.ok THEN [user |-> NoUser, tbl |-> tbl]
    ELSE IF get_user(v.user_id) = NoUser THEN [user |-> NoUser, tbl |-> tbl]
    ELSE IF get_token(tbl, v.jti) = NoJti
            \/ tbl[v.jti].user_id # v.user_id
            \/ tbl[v.jti].is_active = FALSE
         THEN [user |-> NoUser, tbl |-> tbl]
    ELSE IF tbl[v.jti].expires_at < later
         THEN [user |-> NoUser, tbl |-> invalidate_token(tbl, token_type, v.jti)]
    ELSE [user |-> v.user_id, tbl |-> tbl]
\* validate_token when no time passes during the call
validate_token(tbl, token, token_type) == validate_token_at(tbl, token, token_type, now)

\* refresh_access_token: raises jwt.PyJWTError (ok = FALSE) or issues a
\* new ACCESS token
\* variant of refresh_access_token that stores the new row before validating
refresh_access_token_at_store_first(tbl, refresh_token, jti, later) ==
    LET r == validate_token_at(tbl, refresh_token, REFRESH, later)
        c == create_token_at(r.tbl, IF r.user = NoUser THEN "u1" ELSE r.user, jti, ACCESS,
                             TokenTtlSeconds * TicksPerSecond, FALSE, later)
    IN
    IF r.user = NoUser
    THEN [ok |-> FALSE, user |-> NoUser, tbl |-> c.tbl, payload |-> NoPayload]
    ELSE [ok |-> TRUE, user |-> r.user, tbl |-> c.tbl, payload |-> c.payload]
refresh_access_token_at(tbl, refresh_token, jti, later) ==
    LET r == validate_token_at(tbl, refresh_token, REFRESH, later) IN
    IF r.user = NoUser
    THEN [ok |-> FALSE, user |-> NoUser, tbl |-> r.tbl, payload |-> NoPayload]
    ELSE LET c == create_token_at(r.tbl, r.user, jti, ACCESS,
                                  TokenTtlSeconds * TicksPerSecond, FALSE, later) IN
         [ok |-> TRUE, user |-> r.user, tbl |-> c.tbl, payload |-> c.payload]
\* refresh_access_token when no time passes during the call
refresh_access_token(tbl, refresh_token, jti) ==
    refresh_access_token_at(tbl, refresh_token, jti, now)

\* the tokens a client can present: what was signed so far, the same
\* payloads under a signature that does not verify, and garbage
Presentable ==
    {Signed(p) : p \in jwts} \cup {Forged(p) : p \in jwts} \cup {MalformedToken}

\* ------------------------------------------------------------- actions
\* create_token called by a route (login, tests): one token for user sub
CreateToken(sub, token_type, has_response) ==
    /\ nextJti <= MaxTokens
    /\ now + TokenTtlSeconds * TicksPerSecond <= MaxTime
    /\ LET c == create_token(tokens, sub, nextJti, token_type,
                             TokenTtlSeconds * TicksPerSecond, has_response) IN
       /\ tokens' = c.tbl
       /\ nextJti' = nextJti + 1
       /\ IF c.raised
          THEN /\ jwts' = jwts
               /\ response' = Resp("create_token", 500, "ValueError", sub, 0, 0)
          ELSE /\ jwts' = jwts \cup {c.payload}
               /\ response' = Resp("create_token", 200, token_type, sub, 0, nextJti)
    /\ UNCHANGED <<now, users, sessionVars, resetLinks, legacyVars, race>>

\* validate_token called by a route or by the middleware
ValidateToken(token, token_type) ==
    \E later \in now..MaxTime :
        LET r == validate_token_at(tokens, token, token_type, later) IN
        /\ now' = later
        /\ tokens' = r.tbl
        /\ response' = Resp("validate_token", IF r.user = NoUser THEN 401 ELSE 200,
                            token_type, r.user, JtiOf(token), 0)
        /\ UNCHANGED <<users, sessionVars, jwts, nextJti, resetLinks, legacyVars, race>>

\* refresh_access_token called by a route or by the middleware
RefreshAccessToken(token) ==
    \E later \in now..MaxTime :
        LET r == refresh_access_token_at(tokens, token, nextJti, later) IN
        /\ nextJti <= MaxTokens
        /\ r.ok => later + TokenTtlSeconds * TicksPerSecond <= MaxTime
        /\ now' = later
        /\ tokens' = r.tbl
        /\ IF r.ok
           THEN /\ jwts' = jwts \cup {r.payload}
                /\ nextJti' = nextJti + 1
                /\ response' = Resp("refresh", 200, "", r.user, JtiOf(token), nextJti)
           ELSE /\ UNCHANGED <<jwts, nextJti>>
                /\ response' = Resp("refresh", 401, "Invalid token", NoUser, JtiOf(token), 0)
        /\ UNCHANGED <<users, sessionVars, resetLinks, legacyVars, race>>

InvalidateToken(token_type, token_jti) ==
    /\ tokens' = invalidate_token(tokens, token_type, token_jti)
    /\ response' = Resp("invalidate_token", 200, "", NoUser, 0, 0)
    /\ UNCHANGED <<now, users, sessionVars, jwts, nextJti, resetLinks, legacyVars, race>>

InvalidateAllUserAccessTokens(user, token_type) ==
    /\ tokens' = invalidate_all_user_access_tokens(tokens, user, token_type)
    /\ response' = Resp("invalidate_all", 200, "", NoUser, 0, 0)
    /\ UNCHANGED <<now, users, sessionVars, jwts, nextJti, resetLinks, legacyVars, race>>

\* POST /api/auth/forgot-password
forgot_password(email) ==
    LET user == get_user_by_email(email) IN
    /\ IF user # NoUser
       THEN /\ resetLinks < MaxResetLinks
            /\ jwts' = jwts \cup {[sub |-> user, jti |-> NoJti,
                                   exp |-> JwtExp(now + ResetTtlSeconds * TicksPerSecond)]}
            /\ resetLinks' = resetLinks + 1
            /\ response' = Resp("forgot_password", 200,
                                "Password reset link sent to your email", NoUser, 0, 0)
       ELSE /\ UNCHANGED <<jwts, resetLinks>>
            /\ response' = Resp("forgot_password", 200, "null", NoUser, 0, 0)
    /\ UNCHANGED <<now, users, sessionVars, tokens, nextJti, legacyVars, race>>

\* POST /api/auth/send-verification-sms: signs {sub: hash of the code, exp}
\* with settings.secret_key and hands it out as the sms_otp cookie (the
\* client keeps one such cookie)
send_verification_sms ==
    /\ \A p \in jwts : p.sub \notin OtpSalts
    /\ \E otp \in Otps :
          jwts' = jwts \cup {[sub |-> hash_password(otp), jti |-> NoJti,
                              exp |-> JwtExp(now + OtpTtlSeconds * TicksPerSecond)]}
    /\ response' = Resp("send_verification_sms", 200, "OTP sent as SMS", NoUser, 0, 0)
    /\ UNCHANGED <<now, users, sessionVars, tokens, nextJti, resetLinks, legacyVars, race>>

\* variant of reset_password that also closes the owner's sessions
reset_password_closing_sessions(token, new_password) ==
    LET d == jwt_decode(token)
        user == get_user(token.payload.sub)
    IN
    /\ IF d = "expired"
       THEN /\ response' = Resp("reset_password", 401,
                                "Could not validate credentials, token expired",
                                NoUser, JtiOf(token), 0)
            /\ UNCHANGED <<users, sessions>>
       ELSE IF d = "ok" /\ token.payload.sub \notin UserIds
       THEN \* uuid.UUID(payload.get("sub")) raises ValueError / TypeError
            /\ response' = Resp("reset_password", 500, "ValueError", NoUser, JtiOf(token), 0)
            /\ UNCHANGED <<users, sessions>>
       ELSE IF d = "invalid" \/ user = NoUser
       THEN /\ response' = Resp("reset_password", 401, "Could not validate credentials",
                                NoUser, JtiOf(token), 0)
            /\ UNCHANGED <<users, sessions>>
       ELSE /\ users' = update_user(users, user, "hashed_password", hash_password(new_password))
            /\ sessions' = delete_session_by_user_id(sessions, user)
            /\ response' = Resp("reset_password", 200, "Password reset successful",
                                user, JtiOf(token), 0)
    /\ UNCHANGED <<now, nextSid, sessionOwner, tokenVars, legacyVars, race>>
\* POST /api/auth/reset-password
reset_password(token, new_password) ==
    LET d == jwt_decode(token)
        user == get_user(token.payload.sub)
    IN
    /\ IF d = "expired"
       THEN /\ response' = Resp("reset_password", 401,
                                "Could not validate credentials, token expired",
                                NoUser, JtiOf(token), 0)
            /\ UNCHANGED users
       ELSE IF d = "ok" /\ token.payload.sub \notin UserIds
       THEN \* uuid.UUID(payload.get("sub")) raises ValueError / TypeError
            /\ response' = Resp("reset_password", 500, "ValueError", NoUser, JtiOf(token), 0)
            /\ UNCHANGED users
       ELSE IF d = "invalid" \/ user = NoUser
       THEN /\ response' = Resp("reset_password", 401, "Could not validate credentials",
                                NoUser, JtiOf(token), 0)
            /\ UNCHANGED users
       ELSE /\ users' = update_user(users, user, "hashed_password", hash_password(new_password))
            /\ response' = Resp("reset_password", 200, "Password reset successful",
                                user, JtiOf(token), 0)
    /\ UNCHANGED <<now, sessionVars, tokenVars, legacyVars, race>>

\* ===================================================== legacy design
\* ------------------------------------------------------- internal/crud
legacy_store_token(tbl, user, token_jti, expires_at) ==
    [j \in DOMAIN tbl \cup {token_jti} |->
        IF j = token_jti THEN [user_id |-> user, expires_at |-> expires_at]
        ELSE tbl[j]]
legacy_delete_token(tbl, token_jti) ==
    [j \in DOMAIN tbl \ {token_jti} |-> tbl[j]]
\* variant of delete_user_tokens that clears the rows of every user
legacy_delete_user_tokens_every_row(tbl, user) == [j \in {} |-> tbl[j]]
\* user.tokens.clear() and commit: the rows leave the user's collection
legacy_delete_user_tokens(tbl, user) ==
    [j \in {x \in DOMAIN tbl : tbl[x].user_id # user} |-> tbl[j]]

\* ------------------------------------------------------ internal/utils
\* create_access_token: the table after store_token and the payload signed
create_access_token(tbl, email, jti, expires_delta) ==
    LET expire == now + expires_delta IN
    [tbl |-> legacy_store_token(tbl, get_user_by_email(email), jti, expire),
     payload |-> [sub |-> email, jti |-> jti, exp |-> JwtExp(expire)]]

\* ------------------------------------------------ dependencies (legacy)
legacy_get_current_user(tbl, token) ==
    IF jwt_decode(token) # "ok" THEN [status |-> 401, user |-> NoUser, tbl |-> tbl]
    ELSE IF token.payload.jti = NoJti \/ token.payload.sub = NoUser
         THEN [status |-> 401, user |-> NoUser, tbl |-> tbl]
    ELSE IF get_user_by_email(token.payload.sub) = NoUser
         THEN [status |-> 401, user |-> NoUser, tbl |-> tbl]
    ELSE IF token.payload.jti \notin DOMAIN tbl
         THEN [status |-> 401, user |-> NoUser, tbl |-> tbl]
    ELSE IF tbl[token.payload.jti].expires_at < now
         THEN [status |-> 401, user |-> NoUser,
               tbl |-> legacy_delete_token(tbl, token.payload.jti)]
    ELSE IF get_user(tbl[token.payload.jti].user_id) = NoUser
         THEN [status |-> 401, user |-> NoUser, tbl |-> tbl]
    ELSE [status |-> 200, user |-> tbl[token.payload.jti].user_id, tbl |-> tbl]

legacy_get_current_active_user(tbl, token) ==
    LET r == legacy_get_current_user(tbl, token) IN
    IF r.status # 200 THEN r
    ELSE IF users[r.user].is_active THEN r
    ELSE [status |-> 401, user |-> NoUser, tbl |-> r.tbl]

LegacyPresentable ==
    {Signed(p) : p \in ljwts} \cup {Forged(p) : p \in ljwts} \cup {MalformedToken}

\* -------------------------------------------------------------- actions
\* POST /api/auth/login (legacy design)
login_for_access_token(email, password) ==
    LET a == authenticate(email, password) IN
    /\ IF a.status # 200
       THEN /\ response' = Resp("login", a.status, a.detail, NoUser, 0, 0)
            /\ UNCHANGED legacyVars
       ELSE /\ nextLJti <= MaxTokens
            /\ now + TokenTtlSeconds * TicksPerSecond <= MaxTime
            /\ LET c == create_access_token(ltokens, email, nextLJti,
                                            TokenTtlSeconds * TicksPerSecond) IN
               /\ ltokens' = c.tbl
               /\ ljwts' = ljwts \cup {c.payload}
            /\ nextLJti' = nextLJti + 1
            /\ response' = Resp("login", 200, "bearer", a.user, 0, nextLJti)
    /\ UNCHANGED <<now, users, sessionVars, tokenVars, race>>

\* POST /api/auth/logout (legacy design): the route depends on
\* get_current_active_user; then delete_token(jti) is called without the db
\* argument and raises TypeError
legacy_logout(token) ==
    LET r == legacy_get_current_active_user(ltokens, token) IN
    /\ ltokens' = r.tbl
    /\ IF r.status # 200
       THEN response' = Resp("logout", r.status, "", NoUser, JtiOf(token), 0)
       ELSE IF jwt_decode(token) # "ok" \/ token.payload.jti = NoJti
       THEN response' = Resp("logout", 401, "Could not validate credentials",
                             NoUser, JtiOf(token), 0)
       ELSE response' = Resp("logout", 500, "TypeError", NoUser, JtiOf(token), 0)
    /\ UNCHANGED <<now, users, sessionVars, tokenVars, ljwts, nextLJti, race>>

\* POST /api/auth/logoutall (legacy design)
legacy_logout_all(token) ==
    LET r == legacy_get_current_active_user(ltokens, token) IN
    /\ IF r.status # 200
       THEN /\ ltokens' = r.tbl
            /\ response' = Resp("logout_all", r.status, "", NoUser, JtiOf(token), 0)
       ELSE /\ ltokens' = legacy_delete_user_tokens(r.tbl, r.user)
            /\ response' = Resp("logout_all", 200, "Successfully logged out all devices",
                                r.user, JtiOf(token), 0)
    /\ UNCHANGED <<now, users, sessionVars, tokenVars, ljwts, nextLJti, race>>

\* any route guarded by get_current_active_user (legacy design)
legacy_guarded_route(token) ==
    LET r == legacy_get_current_active_user(ltokens, token) IN
    /\ ltokens' = r.tbl
    /\ response' = Resp("me", r.status, "", r.user, JtiOf(token), 0)
    /\ UNCHANGED <<now, users, sessionVars, tokenVars, ljwts, nextLJti, race>>

\* the clock advances between requests
Tick ==
    /\ now < MaxTime
    /\ now' = now + 1
    /\ response' = NoResponse
    /\ UNCHANGED <<users, sessionVars, tokenVars, legacyVars, race>>

\* ------------------------------------------------------- specification
\* the user table at start: both users signed up and never logged in;
\* u2 may have been deactivated
InitialPassword(u) == IF u = "u1" THEN "pw1" ELSE "pw2"
InitialUsers(u2_active) ==
    [u \in Users |-> [email |-> EmailOf(u),
                      hashed_password |-> hash_password(InitialPassword(u)),
                      is_active |-> IF u = "u2" THEN u2_active ELSE TRUE,
                      is_first_login |-> "null"]]

InitStores ==
    /\ now = 0
    /\ sessions = << >>
    /\ nextSid = 1
    /\ sessionOwner = << >>
    /\ tokens = << >>
    /\ jwts = {}
    /\ nextJti = 1
    /\ resetLinks = 0
    /\ ltokens = << >>
    /\ ljwts = {}
    /\ nextLJti = 1
    /\ response = NoResponse
    /\ race = RaceIdle

Init == InitStores /\ users = InitialUsers(TRUE)
InitSession == InitStores /\ \E a \in BOOLEAN : users = InitialUsers(a)

NextSession ==
    \/ \E e \in Emails, p \in Passwords, c \in Cookies : login(e, p, c)
    \/ \E c \in Cookies : logout(c)
    \/ \E c \in Cookies : logout_all(c)
    \/ \E c \in Cookies : read_users_me(c)
    \/ Tick

SpecSession == InitSession /\ [][NextSession]_vars

NextToken ==
    \/ \E u \in Users, ty \in {ACCESS, REFRESH}, hr \in BOOLEAN : CreateToken(u, ty, hr)
    \/ \E t \in Presentable, ty \in {ACCESS, REFRESH} : ValidateToken(t, ty)
    \/ \E t \in Presentable : RefreshAccessToken(t)
    \/ \E ty \in {ACCESS, REFRESH}, j \in DOMAIN tokens : InvalidateToken(ty, j)
    \/ \E u \in Users, ty \in {ACCESS, REFRESH} : InvalidateAllUserAccessTokens(u, ty)
    \/ Tick

SpecToken == Init /\ [][NextToken]_vars

NextReset ==
    \/ \E u \in Users : CreateToken(u, RESET, FALSE)
    \/ \E t \in Presentable : ValidateToken(t, RESET)
    \/ \E e \in Emails : forgot_password(e)
    \/ send_verification_sms
    \/ \E t \in Presentable, p \in Passwords : reset_password(t, p)
    \/ Tick

SpecReset == Init /\ [][NextReset]_vars

NextLegacy ==
    \/ \E e \in Emails, p \in Passwords : login_for_access_token(e, p)
    \/ \E t \in LegacyPresentable : legacy_logout(t)
    \/ \E t \in LegacyPresentable : legacy_logout_all(t)
    \/ \E t \in LegacyPresentable : legacy_guarded_route(t)
    \/ Tick

SpecLegacy == InitSession /\ [][NextLegacy]_vars

\* one design per deployment: a design runs only while the tables of the
\* other designs are untouched
SessionIdle == nextSid = 1
TokenIdle == nextJti = 1 /\ resetLinks = 0
LegacyIdle == nextLJti = 1
\* (the token design never reads is_active: it runs with every user active)
Next ==
    \/ TokenIdle /\ LegacyIdle /\ NextSession
    \/ SessionIdle /\ LegacyIdle /\ users = InitialUsers(TRUE) /\ NextToken
    \/ SessionIdle /\ TokenIdle /\ NextLegacy

Spec == InitSession /\ [][Next]_vars

\* the two designs that have logout and logout_all routes
NextRevoke ==
    \/ LegacyIdle /\ NextSession
    \/ SessionIdle /\ NextLegacy

SpecRevoke == InitSession /\ [][NextRevoke]_vars

\* a login racing a logout_all, after earlier logins handled one at a time
NextRace ==
    \/ race = RaceIdle /\ \E e \in Emails, p \in Passwords, c \in Cookies : login(e, p, c)
    \/ \E e \in Emails, p \in Passwords, c \in Cookies : login_authenticate(e, p, c)
    \/ login_delete_session_by_user_id
    \/ login_delete_session
    \/ login_create_session
    \/ login_update_user
    \/ \E c \in Cookies : logout_all_get_current_active_user(c)
    \/ logout_all_delete_session_by_user_id
    \/ Tick

SpecRace == Init /\ [][NextRace]_vars

\* ================================================================ claims

\* the JWTs of the token design that carry the jti of a store row
StoredJwts == {p \in jwts : p.jti \in DOMAIN tokens}

\* C1: after refresh(r) succeeds for owner u, every ACCESS token issued to
\* u before that refresh fails validate(token, ACCESS).
C1_RefreshRevokesEarlierAccessTokens ==
    (response.op = "refresh" /\ response.status = 200
     /\ tokens[response.cred].token_type = REFRESH) =>
        \A p \in StoredJwts :
            (p.jti # response.new /\ p.sub = response.user
             /\ tokens[p.jti].token_type = ACCESS)
            => validate_token(tokens, Signed(p), ACCESS).user = NoUser

\* C2: when two logins of one user produce sessions s1 then s2, s1 does
\* not resolve afterwards, and s2 resolves to the user when the second
\* login returns.
C2_SecondLoginClosesFirst ==
    /\ \A s1, s2 \in DOMAIN sessionOwner :
          (s1 < s2 /\ sessionOwner[s1] = sessionOwner[s2])
          => get_current_user(sessions, s1).status # 200
    /\ (response.op = "login" /\ response.status = 200) =>
          /\ get_current_user(sessions, response.new).status = 200
          /\ get_current_user(sessions, response.new).user = response.user
C2_Witness ==
    /\ response.op = "login" /\ response.status = 200
    /\ \E s1 \in DOMAIN sessionOwner :
          s1 < response.new /\ sessionOwner[s1] = response.user

\* C3: a token row or session row whose expires_at is earlier than now
\* never validates to a principal, whatever its is_active.
C3_ExpiredNeverValidates ==
    /\ \A s \in DOMAIN sessions :
          sessions[s].expires_at < now => get_current_user(sessions, s).status # 200
    /\ \A p \in StoredJwts, ty \in TokenTypes :
          tokens[p.jti].expires_at < now
          => validate_token(tokens, Signed(p), ty).user = NoUser
    /\ \A p \in ljwts :
          (p.jti \in DOMAIN ltokens /\ ltokens[p.jti].expires_at < now)
          => legacy_get_current_user(ltokens, Signed(p)).status # 200
C3_Witness ==
    /\ response.op = "validate_token" /\ response.status = 401
    /\ response.cred \in DOMAIN tokens
    /\ tokens[response.cred].is_active
    /\ tokens[response.cred].expires_at < now

C5_InactiveStaysInactive ==
    [][\A j \in DOMAIN tokens :
          ~tokens[j].is_active => (j \in DOMAIN tokens' /\ ~tokens'[j].is_active)]_vars
C5_Witness ==
    /\ response.op = "refresh" /\ response.status = 401
    /\ response.cred \in DOMAIN tokens
    /\ ~tokens[response.cred].is_active
    /\ tokens[response.cred].token_type = REFRESH

\* C6: validate(token, expected_kind) fails whenever the kind recorded in
\* the token's store row differs from expected_kind; refresh rejects a
\* token that is not a REFRESH token.
C6_KindMismatchFails ==
    /\ (response.op = "validate_token" /\ response.status = 200)
       => tokens[response.cred].token_type = response.detail
    /\ (response.op = "refresh" /\ response.status = 200)
       => tokens[response.cred].token_type = REFRESH

\* C7: access validation, refresh and reset_password succeed only if a
\* store row with the token's jti exists and is active and unexpired.
C7_SignatureAloneNeverSuffices ==
    (response.status = 200 /\ response.op \in {"validate_token", "refresh", "reset_password"})
    => /\ response.cred \in DOMAIN tokens
       /\ tokens[response.cred].is_active
       /\ ~(tokens[response.cred].expires_at < now)

\* C8: after logout_all by principal p completes, no credential issued to
\* p before it resolves to p, and the credentials of every other principal
\* are unchanged.
C8_LogoutAllRevokesOwnOnly ==
    [][(response'.op = "logout_all" /\ response'.status = 200) =>
          /\ \A s \in DOMAIN sessionOwner :
                sessionOwner[s] = response'.user
                => (get_current_user(sessions, s).user # response.user)'
          /\ \A s \in DOMAIN sessions :
                sessions[s].user_id # response'.user
                => (s \in DOMAIN sessions' /\ sessions'[s] = sessions[s])
          /\ DOMAIN sessions' \subseteq DOMAIN sessions
          /\ \A p \in ljwts :
                p.sub = users[response'.user].email
                => (legacy_get_current_user(ltokens, Signed(p)).user # response.user)'
          /\ \A j \in DOMAIN ltokens :
                ltokens[j].user_id # response'.user
                => (j \in DOMAIN ltokens' /\ ltokens'[j] = ltokens[j])
          /\ DOMAIN ltokens' \subseteq DOMAIN ltokens]_vars
C8_Witness ==
    /\ response.op = "logout_all" /\ response.status = 200
    /\ response.cred \in DOMAIN sessionOwner
    /\ \E s \in DOMAIN sessions : sessions[s].user_id # response.user

C10_LogoutIdempotent ==
    [][(response'.op = "logout" /\ response'.cred \in SessionIds
        /\ response'.cred \notin DOMAIN sessions) =>
          /\ response'.status = 200
          /\ response'.detail = "Successfully logged out"
          /\ (response.op = "logout" /\ response.cred = response'.cred)
             => (response'.status = response.status /\ response'.detail = response.detail)
          /\ sessions' = sessions]_vars
C10_Witness ==
    /\ response.op = "logout" /\ response.status = 200
    /\ response.repeat /\ response.rows = 0
    /\ response.cred \in DOMAIN sessionOwner

\* C11: a logout is answered as a success only when the credential it
\* presents resolves to a principal at the time of the call; an unknown,
\* deleted or expired session id is not logged out.
C11_LogoutRequiresResolvableCredential ==
    [][(response'.op = "logout" /\ response'.status = 200) =>
          \/ get_current_user(sessions, response'.cred).status = 200
          \/ \E p \in ljwts :
                /\ p.jti = response'.cred
                /\ legacy_get_current_user(ltokens, Signed(p)).status = 200]_vars

\* the store of all designs: everything but the clock and the response
stores == <<users, sessionVars, tokenVars, legacyVars>>
\* the (email, password) pair names no account or the wrong password
BadCredentials(email, password) ==
    \/ \A u \in DOMAIN users : users[u].email # email
    \/ \E u \in DOMAIN users :
          users[u].email = email /\ users[u].hashed_password # hash_password(password)

\* C12: a login with an unknown email or a wrong password is answered 401
\* and changes nothing: no session or token is created, no session of any
\* user is deleted and is_first_login is untouched.
C12_FailedLoginChangesNothing ==
    [][/\ \A e \in Emails, p \in Passwords :
             BadCredentials(e, p) =>
                /\ \A c \in Cookies :
                      login(e, p, c) => (response'.status = 401 /\ UNCHANGED stores)
                /\ login_for_access_token(e, p)
                   => (response'.status = 401 /\ UNCHANGED stores)
       /\ (response'.op = "login" /\ response'.status = 401) => UNCHANGED stores]_vars
C12_Witness ==
    /\ response.op = "login" /\ response.status = 401
    /\ response.detail = "Password is incorrect"
    /\ response.cred \in DOMAIN sessions
    /\ \E s \in DOMAIN sessions : s # response.cred

\* C13: a login with the correct email and password of a principal whose
\* is_active is false fails: no login succeeds for an inactive principal.
C13_InactiveLoginFails ==
    (response.op = "login" /\ response.status = 200) => users[response.user].is_active

\* C14: the response to a failed login is the same for an email with no
\* account as for an existing account given a wrong password.
\* (every failed login is answered as a login with an unknown email is)
C14_FailedLoginIndistinguishable ==
    (response.op = "login" /\ response.status = 401) =>
        \A p \in Passwords :
            /\ response.status = authenticate(GhostEmail, p).status
            /\ response.detail = authenticate(GhostEmail, p).detail

\* C15: forgot_password answers with the same status and body whether or
\* not the email belongs to an account (any two consecutive requests get
\* the same response), and for an email without account it signs no reset
\* token and mails no link.
C15_ForgotPasswordNoEnumeration ==
    [][response'.op = "forgot_password" =>
          /\ response.op = "forgot_password"
             => (response'.status = response.status /\ response'.detail = response.detail)
          /\ forgot_password(GhostEmail) => UNCHANGED <<jwts, resetLinks>>]_vars

\* C16: reset_password presented with an expired, malformed or wrongly
\* signed token, or with a token whose subject is not an existing user,
\* answers 401 and leaves every hashed_password unchanged.
C16_ResetPasswordRejectsBadToken ==
    [][\A t \in Presentable, p \in Passwords :
          (reset_password(t, p)
           /\ (jwt_decode(t) # "ok" \/ t.payload.sub \notin DOMAIN users))
          => (response'.status = 401 /\ UNCHANGED users)]_vars

\* C17: after reset_password succeeds for owner u, every reset token issued
\* to u before that success is rejected by later reset_password calls: the
\* request that follows a successful reset for u does not succeed for u
\* again (every token presentable then was issued before the success).
C17_ResetRevokesOutstandingResetTokens ==
    [][(response.op = "reset_password" /\ response.status = 200
        /\ response'.op = "reset_password")
       => ~(response'.status = 200 /\ response'.user = response.user)]_vars

\* C18 as stated: whenever refresh fails, the token store is the same after
\* the call as before it: no row is created and no row is modified.
C18_FailedRefreshLeavesStore ==
    [][(response'.op = "refresh" /\ response'.status = 401)
       => UNCHANGED <<tokens, jwts, nextJti>>]_vars
\* C18 as amended: whenever refresh fails, no row is created and no row is
\* modified, except that the row of the presented token may be set inactive
\* when the call finds it past its expires_at.
C18_FailedRefreshOnlyRevokesExpired ==
    [][(response'.op = "refresh" /\ response'.status = 401) =>
          /\ UNCHANGED <<jwts, nextJti>>
          /\ DOMAIN tokens' = DOMAIN tokens
          /\ \A j \in DOMAIN tokens :
                \/ tokens'[j] = tokens[j]
                \/ /\ j = response'.cred
                   /\ tokens[j].expires_at < now'
                   /\ tokens'[j] = [tokens[j] EXCEPT !.is_active = FALSE]]_vars
C18_Witness ==
    /\ response.op = "refresh" /\ response.status = 401
    /\ response.cred \in DOMAIN tokens
    /\ tokens[response.cred].token_type = REFRESH
    /\ ~tokens[response.cred].is_active
    /\ tokens[response.cred].expires_at < now
    /\ \E j \in DOMAIN tokens : tokens[j].is_active

\* C19: the first validation attempt on a credential whose store row is
\* still active but past its expires_at fails and leaves the row revoked
\* (token row: is_active false; session row: deleted), whichever kind the
\* caller asked to validate it as.
C19_ExpiredRowRevokedOnFirstAttempt ==
    [][/\ (response'.op = "validate_token" /\ response'.cred \in DOMAIN tokens
           /\ tokens[response'.cred].is_active
           /\ tokens[response'.cred].expires_at < now)
          => /\ response'.status = 401
             /\ ~tokens'[response'.cred].is_active
       /\ (response'.op \in {"me", "logout_all"} /\ response'.cred \in DOMAIN sessions
           /\ sessions[response'.cred].expires_at < now)
          => /\ response'.status # 200
             /\ response'.cred \notin DOMAIN sessions']_vars

\* C20: for every interleaving of the steps of login(u) with a concurrent
\* logout_all, once both have finished the session created by that login
\* is either entirely absent or present as the whole row login stored, and
\* then it resolves to u until it expires; no session row is ever partial.
C20_RaceLeavesWholeSessionOrNone ==
    /\ \A s \in DOMAIN sessions :
          /\ sessions[s].user_id \in Users
          /\ sessions[s].user_id = sessionOwner[s]
    /\ (race.lpc = "done" /\ race.apc = "done" /\ race.lstatus = 200) =>
          \/ race.lsid \notin DOMAIN sessions
          \/ /\ sessions[race.lsid] = [user_id |-> race.luser, expires_at |-> race.lexpiry]
             /\ now <= race.lexpiry =>
                   /\ get_current_user(sessions, race.lsid).status = 200
                   /\ get_current_user(sessions, race.lsid).user = race.luser
\* the login's session survives a logout_all of the same user whose
\* delete ran between the login's delete and its create_session
C20_Witness ==
    /\ race.lpc = "done" /\ race.apc = "done"
    /\ race.lstatus = 200 /\ race.astatus = 200
    /\ race.luser = race.auser
    /\ race.lsid \in DOMAIN sessions
\* the login's session is wiped by a logout_all of the same user
C20_WitnessWiped ==
    /\ race.lpc = "done" /\ race.apc = "done"
    /\ race.lstatus = 200 /\ race.astatus = 200
    /\ race.luser = race.auser
    /\ race.lsid \notin DOMAIN sessions

\* logins of several devices: one login handled statement by statement
\* while the logins of other devices are handled between its statements
NextLogins ==
    \/ \E e \in Emails, p \in Passwords, c \in Cookies : login(e, p, c)
    \/ \E e \in Emails, p \in Passwords, c \in Cookies : login_authenticate(e, p, c)
    \/ login_delete_session_by_user_id
    \/ login_delete_session
    \/ login_create_session
    \/ login_update_user
    \/ Tick

SpecLogins == Init /\ [][NextLogins]_vars

\* the session rows of user u
SessionsOf(u) == {s \in DOMAIN sessions : sessions[s].user_id = u}

\* C21: for every interleaving of logins by the same user from different
\* devices, whenever no login for that user is in progress at most one
\* session row exists for that user.
C21_SingleSessionWhenNoLoginInProgress ==
    race.lpc \in {"idle", "done"} =>
        \A u \in Users : Cardinality(SessionsOf(u)) <= 1

\* ============================================================== signup
\* bound: verification links send_verification_email may mail out
MaxVerificationLinks == 2
\* full_name values that pass UserBase.full_name_validator
FullNames == {"Ada Obi"}
\* the sub claim of a verification link: f"{email}:{salt}:user:{full_name}",
\* salt being hash_password(password)
VerifySub(email, password, full_name) ==
    email \o ":" \o hash_password(password) \o ":user:" \o full_name
VerifySubs == {VerifySub(e, p, n) : e \in Emails, p \in Passwords, n \in FullNames}
\* email, salt, role, full_name = payload["sub"].split(":"): the four parts,
\* or the ValueError of the unpacking (ok = FALSE)
split_sub(sub) ==
    IF sub \in VerifySubs
    THEN LET r == CHOOSE x \in [email : Emails, password : Passwords, full_name : FullNames] :
                      VerifySub(x.email, x.password, x.full_name) = sub
         IN [ok |-> TRUE, email |-> r.email, salt |-> hash_password(r.password),
             full_name |-> r.full_name]
    ELSE [ok |-> FALSE, email |-> "", salt |-> hash_password(""), full_name |-> ""]
\* the id a new user row gets
NewUserId(tbl) == CHOOSE id \in UserIds \ DOMAIN tbl : TRUE
\* db.add(UserModel(email, full_name, role, hashed_password=salt)); commit
add_user(tbl, user_id, email, salt) ==
    [u \in DOMAIN tbl \cup {user_id} |->
        IF u = user_id
        THEN [email |-> email, hashed_password |-> salt, is_active |-> TRUE,
              is_first_login |-> "null"]
        ELSE tbl[u]]

\* POST /api/users/ (signup): mails the verification link
send_verification_email(email, password, full_name) ==
    /\ IF get_user_by_email(email) # NoUser
       THEN /\ response' = Resp("send_verification_email", 400, "Email already in use",
                                NoUser, 0, 0)
            /\ UNCHANGED jwts
       ELSE /\ Cardinality({p \in jwts : p.sub \in VerifySubs}) < MaxVerificationLinks
            /\ jwts' = jwts \cup {[sub |-> VerifySub(email, password, full_name),
                                   jti |-> NoJti,
                                   exp |-> JwtExp(now + ResetTtlSeconds * TicksPerSecond)]}
            /\ response' = Resp("send_verification_email", 200,
                                "Email verification link sent", NoUser, 0, 0)
    /\ UNCHANGED <<now, users, sessionVars, tokens, nextJti, resetLinks, legacyVars, race>>

\* variant of verify_user_email that accepts a link past its exp
verify_user_email_no_expiry(token) ==
    LET parts == split_sub(token.payload.sub) IN
    /\ IF token.sig # "valid"
       THEN /\ response' = Resp("verify_user_email", 400, "Invalid token", NoUser, 0, 0)
            /\ UNCHANGED users
       ELSE IF ~parts.ok
       THEN /\ response' = Resp("verify_user_email", 500, "ValueError", NoUser, 0, 0)
            /\ UNCHANGED users
       ELSE IF get_user_by_email(parts.email) # NoUser
       THEN /\ response' = Resp("verify_user_email", 400, "Email already verified",
                                NoUser, 0, 0)
            /\ UNCHANGED users
       ELSE /\ UserIds \ DOMAIN users # {}
            /\ users' = add_user(users, NewUserId(users), parts.email, parts.salt)
            /\ response' = Resp("verify_user_email", 308, "", NewUserId(users), 0, 0)
    /\ UNCHANGED <<now, sessionVars, tokenVars, legacyVars, race>>
\* variant of verify_user_email that does not look the email up
verify_user_email_no_lookup(token) ==
    LET d == jwt_decode(token)
        parts == split_sub(token.payload.sub)
    IN
    /\ IF d = "expired"
       THEN /\ response' = Resp("verify_user_email", 400, "Token expired", NoUser, 0, 0)
            /\ UNCHANGED users
       ELSE IF d = "invalid"
       THEN /\ response' = Resp("verify_user_email", 400, "Invalid token", NoUser, 0, 0)
            /\ UNCHANGED users
       ELSE IF ~parts.ok
       THEN /\ response' = Resp("verify_user_email", 500, "ValueError", NoUser, 0, 0)
            /\ UNCHANGED users
       ELSE /\ UserIds \ DOMAIN users # {}
            /\ users' = add_user(users, NewUserId(users), parts.email, parts.salt)
            /\ response' = Resp("verify_user_email", 308, "", NewUserId(users), 0, 0)
    /\ UNCHANGED <<now, sessionVars, tokenVars, legacyVars, race>>
\* GET /api/users/verify-email
verify_user_email(token) ==
    LET d == jwt_decode(token)
        parts == split_sub(token.payload.sub)
    IN
    /\ IF d = "expired"
       THEN /\ response' = Resp("verify_user_email", 400, "Token expired", NoUser, 0, 0)
            /\ UNCHANGED users
       ELSE IF d = "invalid"
       THEN /\ response' = Resp("verify_user_email", 400, "Invalid token", NoUser, 0, 0)
            /\ UNCHANGED users
       ELSE IF ~parts.ok
       THEN \* the unpacking of split(":") raises ValueError
            /\ response' = Resp("verify_user_email", 500, "ValueError", NoUser, 0, 0)
            /\ UNCHANGED users
       ELSE IF get_user_by_email(parts.email) # NoUser
       THEN /\ response' = Resp("verify_user_email", 400, "Email already verified",
                                NoUser, 0, 0)
            /\ UNCHANGED users
       ELSE /\ UserIds \ DOMAIN users # {}
            /\ users' = add_user(users, NewUserId(users), parts.email, parts.salt)
            /\ response' = Resp("verify_user_email", 308, "", NewUserId(users), 0, 0)
    /\ UNCHANGED <<now, sessionVars, tokenVars, legacyVars, race>>

\* the user table is empty until the first verification link is redeemed
InitSignup == InitStores /\ users = << >>

NextSignup ==
    \/ \E e \in Emails, p \in Passwords, n \in FullNames : send_verification_email(e, p, n)
    \/ \E t \in Presentable : verify_user_email(t)
    \/ \E e \in Emails : forgot_password(e)
    \/ send_verification_sms
    \/ Tick

SpecSignup == InitSignup /\ [][NextSignup]_vars

\* C22: a signup request creates no user row; a user row for an email
\* appears only in a verify_user_email step that succeeds with a correctly
\* signed, unexpired verification token for that email; an expired or
\* invalid token creates nothing.
C22_UserRowOnlyByRedeemedToken ==
    [][/\ response'.op = "send_verification_email" => UNCHANGED users
       /\ \A u \in DOMAIN users' \ DOMAIN users :
             /\ response'.op = "verify_user_email" /\ response'.status = 308
             /\ \E t \in Presentable :
                   /\ verify_user_email(t)
                   /\ jwt_decode(t) = "ok"
                   /\ split_sub(t.payload.sub).ok
                   /\ split_sub(t.payload.sub).email = users'[u].email
       /\ \A t \in Presentable :
             (verify_user_email(t) /\ jwt_decode(t) # "ok")
             => (response'.status = 400 /\ UNCHANGED users)]_vars
\* a verification link has been redeemed and its user row exists
C22_Witness ==
    /\ response.op = "verify_user_email" /\ response.status = 308
    /\ response.user \in DOMAIN users
    /\ \E p \in jwts : /\ split_sub(p.sub).ok
                       /\ split_sub(p.sub).email = users[response.user].email

\* C23: at most one user row exists per email after any sequence of signup
\* and verify_user_email calls: a signup for an email already in use is
\* rejected with 400 and sends no verification email, and redeeming a
\* verification token for an email that already has a user (the same token
\* a second time included) is rejected with 400 and changes nothing.
C23_OneUserRowPerEmail ==
    [][/\ \A u, v \in DOMAIN users' : users'[u].email = users'[v].email => u = v
       /\ \A e \in Emails, p \in Passwords, n \in FullNames :
             (send_verification_email(e, p, n) /\ get_user_by_email(e) # NoUser)
             => (response'.status = 400 /\ UNCHANGED <<users, jwts>>)
       /\ \A t \in Presentable :
             (/\ verify_user_email(t)
              /\ jwt_decode(t) = "ok"
              /\ split_sub(t.payload.sub).ok
              /\ get_user_by_email(split_sub(t.payload.sub).email) # NoUser)
             => (response'.status = 400 /\ UNCHANGED <<users, sessionVars, tokenVars>>)]_vars
\* a second link for an email is refused once the first has been redeemed,
\* and the one row of that email is still there
C23_Witness ==
    /\ response.op = "verify_user_email" /\ response.status = 400
    /\ response.detail = "Email already verified"
    /\ Cardinality({p \in jwts : split_sub(p.sub).ok}) = 2
    /\ Cardinality(DOMAIN users) = 1

\* ================================================================= OTP
\* the strings password_context can identify as hashes; verify raises
\* UnknownHashError for any other string
Hashes == {hash_password(x) : x \in Passwords \cup Otps}
\* the body shared by verify_verification_sms and verify_email_otp: the
\* status and detail of the response (500: an exception no handler catches)
verify_otp_cookie(cookie, otp) ==
    IF cookie = NoToken THEN [status |-> 400, detail |-> "OTP not found"]
    ELSE IF jwt_decode(cookie) = "expired"
         THEN [status |-> 400, detail |-> "OTP has expired"]
    ELSE IF jwt_decode(cookie) = "invalid"
         THEN [status |-> 400, detail |-> "Invalid OTP"]
    ELSE IF cookie.payload.sub \notin Hashes
         THEN [status |-> 500, detail |-> "UnknownHashError"]
    ELSE IF verify_password(otp, cookie.payload.sub)
         THEN [status |-> 200, detail |-> "OTP verified"]
    ELSE [status |-> 400, detail |-> "OTP does not match"]

\* POST /api/auth/send-verification-email-otp: the same challenge, handed
\* out as the email_otp cookie
send_verification_email_otp ==
    /\ \A p \in jwts : p.sub \notin OtpSalts
    /\ \E otp \in Otps :
          jwts' = jwts \cup {[sub |-> hash_password(otp), jti |-> NoJti,
                              exp |-> JwtExp(now + OtpTtlSeconds * TicksPerSecond)]}
    /\ response' = Resp("send_verification_email_otp", 200, "OTP sent to email", NoUser, 0, 0)
    /\ UNCHANGED <<now, users, sessionVars, tokens, nextJti, resetLinks, legacyVars, race>>

\* POST /api/auth/verify-verification-sms
\* observation: the request before this one was an OTP verification that
\* succeeded
OtpVerified ==
    response.op \in {"verify_verification_sms", "verify_email_otp"} /\ response.status = 200
\* variant of verify_verification_sms that accepts a challenge once
verify_verification_sms_once(sms_otp, otp) ==
    LET r == IF OtpVerified THEN [status |-> 400, detail |-> "OTP already used"]
             ELSE verify_otp_cookie(sms_otp, otp) IN
    /\ response' = [Resp("verify_verification_sms", r.status, r.detail, NoUser, 0, 0)
                      EXCEPT !.repeat = OtpVerified]
    /\ UNCHANGED <<now, users, sessionVars, tokenVars, legacyVars, race>>
verify_verification_sms(sms_otp, otp) ==
    LET r == verify_otp_cookie(sms_otp, otp) IN
    /\ response' = [Resp("verify_verification_sms", r.status, r.detail, NoUser, 0, 0)
                      EXCEPT !.repeat = OtpVerified]
    /\ UNCHANGED <<now, users, sessionVars, tokenVars, legacyVars, race>>

\* POST /api/auth/verify-email-otp
verify_email_otp(email_otp, otp) ==
    LET r == verify_otp_cookie(email_otp, otp) IN
    /\ response' = [Resp("verify_email_otp", r.status, r.detail, NoUser, 0, 0)
                      EXCEPT !.repeat = OtpVerified]
    /\ UNCHANGED <<now, users, sessionVars, tokenVars, legacyVars, race>>

\* the cookies a client can send: none, or any presentable token
OtpCookies == Presentable \cup {NoToken}

NextOtp ==
    \/ send_verification_sms
    \/ send_verification_email_otp
    \/ \E c \in OtpCookies, k \in Otps : verify_verification_sms(c, k)
    \/ \E c \in OtpCookies, k \in Otps : verify_email_otp(c, k)
    \/ \E e \in Emails : forgot_password(e)
    \/ Tick

SpecOtp == Init /\ [][NextOtp]_vars

\* C24: OTP verification succeeds if and only if a challenge cookie is
\* present, the challenge is correctly signed and unexpired, and the
\* submitted code is the code the challenge was issued for; every other
\* verification (missing cookie, expired challenge, malformed challenge,
\* wrong code) gives a 400 failure.
C24_OtpVerifiesIffValidChallengeAndCode ==
    [][\A c \in OtpCookies, k \in Otps :
          (verify_verification_sms(c, k) \/ verify_email_otp(c, k)) =>
             /\ response'.status = 200 <=>
                   (/\ c # NoToken
                    /\ c.sig = "valid"
                    /\ now < c.payload.exp
                    /\ c.payload.sub = hash_password(k))
             /\ response'.status # 200 => response'.status = 400]_vars

\* C25: the server keeps no consumed state for an OTP challenge: a pair
\* (c, k) that has verified successfully verifies successfully again
\* whenever it is presented before c's expiry. (A pair can only have
\* verified if c is a signed challenge issued for k, so this is stated for
\* every such pair, whatever was verified before.)
C25_OtpChallengeReplayable ==
    [][\A p \in jwts, k \in Otps :
          (/\ verify_verification_sms(Signed(p), k) \/ verify_email_otp(Signed(p), k)
           /\ p.sub = hash_password(k)
           /\ now < p.exp)
          => response'.status = 200]_vars
\* a challenge verifies a second time, right after it has verified
C25_Witness ==
    /\ response.op \in {"verify_verification_sms", "verify_email_otp"}
    /\ response.status = 200
    /\ response.repeat

\* C26: a principal whose is_active flag is false is rejected by every
\* operation guarded by get_current_active_user, even when it presents an
\* existing, unexpired session (legacy design: token), and the rejection
\* leaves the session (token) row in place.
C26_InactiveRejectedSessionKept ==
    [][/\ \A c \in SessionIds :
             (/\ logout_all(c) \/ read_users_me(c)
              /\ c \in DOMAIN sessions
              /\ now <= sessions[c].expires_at
              /\ ~users[sessions[c].user_id].is_active)
             => (response'.status = 403 /\ sessions' = sessions)
       /\ \A t \in LegacyPresentable :
             (/\ legacy_logout_all(t) \/ legacy_guarded_route(t) \/ legacy_logout(t)
              /\ jwt_decode(t) = "ok"
              /\ t.payload.jti \in DOMAIN ltokens
              /\ now <= ltokens[t.payload.jti].expires_at
              /\ ~users[ltokens[t.payload.jti].user_id].is_active)
             => (response'.status = 401 /\ ltokens' = ltokens)]_vars
\* the inactive u2 holds a live session and has just been refused
C26_Witness ==
    /\ response.op \in {"me", "logout_all"} /\ response.status = 403
    /\ response.cred \in DOMAIN sessions
    /\ now <= sessions[response.cred].expires_at
    /\ ~users[sessions[response.cred].user_id].is_active

\* C27: a login by user A never removes a session that belongs to a
\* different user B, whatever session_id cookie the login request carries;
\* only sessions owned by A are closed.
C27_LoginClosesOwnSessionsOnly ==
    [][\A e \in Emails, p \in Passwords, c \in Cookies :
          (login(e, p, c) /\ authenticate(e, p).status = 200) =>
             \A s \in DOMAIN sessions :
                sessions[s].user_id # authenticate(e, p).user
                => (s \in DOMAIN sessions' /\ sessions'[s] = sessions[s])]_vars

\* password resets by principals that hold sessions and access tokens: at
\* most MaxSessions credentials are issued in all
CredentialsIssued == (nextSid - 1) + (nextJti - 1)
NextResetHeld ==
    \/ /\ CredentialsIssued < MaxSessions
       /\ \E u \in Users, p \in Passwords : login(EmailOf(u), p, NoCookie)
    \/ /\ CredentialsIssued < MaxSessions
       /\ \E u \in Users : CreateToken(u, ACCESS, FALSE)
    \/ \E e \in Emails : forgot_password(e)
    \/ \E t \in Presentable, p \in Passwords : reset_password(t, p)
    \/ Tick

SpecResetHeld == Init /\ [][NextResetHeld]_vars

\* C28: a successful reset_password changes only the owner's
\* hashed_password: every session and token row the owner held before the
\* reset is left untouched and still resolves to the owner afterwards.
C28_ResetChangesOnlyPassword ==
    [][\A t \in Presentable, p \in Passwords :
          (reset_password(t, p) /\ response'.status = 200) =>
             /\ UNCHANGED <<sessions, tokens>>
             /\ users' = [users EXCEPT ![response'.user].hashed_password = hash_password(p)]
             /\ \A s \in DOMAIN sessions :
                   get_current_user(sessions, s).status = 200
                   => /\ get_current_user(sessions', s).status = 200
                      /\ get_current_user(sessions', s).user = sessions[s].user_id
             /\ \A q \in StoredJwts :
                   validate_token(tokens, Signed(q), ACCESS).user # NoUser
                   => validate_token(tokens', Signed(q), ACCESS).user = q.sub]_vars
\* the owner of a live session and of a valid access token has just reset
\* its password to a new one
C28_Witness ==
    /\ response.op = "reset_password" /\ response.status = 200
    /\ users[response.user].hashed_password # hash_password(InitialPassword(response.user))
    /\ \E s \in DOMAIN sessions :
          /\ sessions[s].user_id = response.user
          /\ get_current_user(sessions, s).status = 200
    /\ \E q \in StoredJwts :
          /\ q.sub = response.user
          /\ validate_token(tokens, Signed(q), ACCESS).user = response.user

\* C29: create_token is all-or-nothing: when it fails (a REFRESH token is
\* requested without a response object, so it raises ValueError) no token
\* row has been added to the store; when it returns a signed token exactly
\* one active row with that token's jti, owner, kind and expiry has been
\* added.
C29_CreateTokenAllOrNothing ==
    [][/\ (response'.op = "create_token" /\ response'.status = 500)
          => UNCHANGED tokens
       /\ (response'.op = "create_token" /\ response'.status = 200)
          => /\ response'.new \notin DOMAIN tokens
             /\ DOMAIN tokens' = DOMAIN tokens \cup {response'.new}
             /\ \A j \in DOMAIN tokens : tokens'[j] = tokens[j]
             /\ tokens'[response'.new] =
                   [user_id |-> response'.user, token_type |-> response'.detail,
                    expires_at |-> now + TokenTtlSeconds * TicksPerSecond,
                    is_active |-> TRUE]
             /\ \E p \in jwts' \ jwts :
                   /\ p.jti = response'.new /\ p.sub = response'.user
                   /\ p.exp = JwtExp(now + TokenTtlSeconds * TicksPerSecond)]_vars

\* ========================================================== middleware
\* The request carries an Authorization header (token) and maybe a
\* refresh_token cookie. In the response, status 200 with detail
\* "handler" is the answer of the route handler (call_next ran), cred is
\* the jti of the token in the header and new the jti of the access token
\* put in the response's Authorization header (NoJti: none).
\* app/middleware.py: validate_token returns False for a token that fails,
\* it does not raise, so the except clause is not entered
auto_refresh_token_middleware(token, refresh_token) ==
    LET r == validate_token(tokens, token, ACCESS) IN
    /\ tokens' = r.tbl
    /\ response' = Resp("auto_refresh", 200, "handler", r.user, JtiOf(token), NoJti)
    /\ UNCHANGED <<now, users, sessionVars, jwts, nextJti, resetLinks, legacyVars, race>>

\* app/middlewares.py: a False from validate_token is turned into the
\* HTTPException the except clause catches
middlewares_auto_refresh_token_middleware(token, refresh_token) ==
    LET r == validate_token(tokens, token, ACCESS)
        f == refresh_access_token(r.tbl, refresh_token, nextJti)
    IN
    IF r.user # NoUser
    THEN /\ tokens' = r.tbl
         /\ response' = Resp("auto_refresh", 200, "handler", r.user, JtiOf(token), NoJti)
         /\ UNCHANGED <<now, users, sessionVars, jwts, nextJti, resetLinks, legacyVars, race>>
    ELSE IF refresh_token = NoToken
    THEN /\ tokens' = r.tbl
         /\ response' = Resp("auto_refresh", 401, "Could not validate credentials",
                             NoUser, JtiOf(token), NoJti)
         /\ UNCHANGED <<now, users, sessionVars, jwts, nextJti, resetLinks, legacyVars, race>>
    ELSE IF ~f.ok
    THEN /\ tokens' = f.tbl
         /\ response' = Resp("auto_refresh", 401, "Could not validate credentials",
                             NoUser, JtiOf(token), NoJti)
         /\ UNCHANGED <<now, users, sessionVars, jwts, nextJti, resetLinks, legacyVars, race>>
    ELSE /\ nextJti <= MaxTokens
         /\ now + TokenTtlSeconds * TicksPerSecond <= MaxTime
         /\ tokens' = f.tbl
         /\ jwts' = jwts \cup {f.payload}
         /\ nextJti' = nextJti + 1
         /\ response' = Resp("auto_refresh", 200, "handler", f.user, JtiOf(token), nextJti)
         /\ UNCHANGED <<now, users, sessionVars, resetLinks, legacyVars, race>>

\* the refresh_token cookie of a request: none, garbage, or a signed token
RefreshCookies == {NoToken, MalformedToken} \cup {Signed(p) : p \in jwts}

NextMiddleware ==
    \/ \E u \in Users, ty \in {ACCESS, REFRESH} : CreateToken(u, ty, TRUE)
    \/ \E t \in Presentable, c \in RefreshCookies : auto_refresh_token_middleware(t, c)
    \/ \E t \in Presentable, c \in RefreshCookies :
          middlewares_auto_refresh_token_middleware(t, c)
    \/ \E ty \in {ACCESS, REFRESH}, j \in DOMAIN tokens : InvalidateToken(ty, j)
    \/ Tick

SpecMiddleware == Init /\ [][NextMiddleware]_vars

\* C30: in the auto-refresh middleware, a request whose Authorization
\* header carries an access token that fails validation reaches the route
\* handler only if the refresh_token cookie validates, and then a newly
\* issued access token is returned in the response's Authorization header;
\* with no valid refresh token the request is rejected with 401 and the
\* handler never runs.
C30_FailedAccessNeedsValidRefresh ==
    [][\A t \in Presentable, c \in RefreshCookies :
          (/\ auto_refresh_token_middleware(t, c)
                \/ middlewares_auto_refresh_token_middleware(t, c)
           /\ validate_token(tokens, t, ACCESS).user = NoUser)
          => IF c # NoToken /\ validate_token(tokens, c, REFRESH).user # NoUser
             THEN /\ response'.status = 200 /\ response'.detail = "handler"
                  /\ response'.new \in DOMAIN tokens' \ DOMAIN tokens
                  /\ tokens'[response'.new].token_type = ACCESS
             ELSE /\ response'.status = 401
                  /\ response'.detail # "handler"]_vars

====
